---- MODULE Spec2Model ----
(***************************************************************************)
(* Model of the bulk executor of pelicanctl, internal/bulk/executor.go, and  *)
(* of the command handlers that run a batch through it (cmd/admin and      *)
(* cmd/client), up to the exit code of the process.                        *)
(*                                                                         *)
(* Executor.Execute runs one goroutine per operation, admitted through a   *)
(* buffered channel used as a counting semaphore, and stores one Result    *)
(* per operation at the operation's own index.  The main goroutine (the    *)
(* submitting loop) and the worker goroutines are modelled at the          *)
(* granularity of their synchronisation operations and of their accesses   *)
(* to the shared variables hasError and results.  Three pairs of           *)
(* consecutive operations are one step each, as noted where they are       *)
(* defined: the fail-fast check with wg.Add(1), the critical section that  *)
(* stores a result, and the two deferred calls of a worker.                *)
(*                                                                         *)
(* Indices are 1-based here (Go's index k is k+1 in the model).            *)
(***************************************************************************)
EXTENDS Integers, Sequences, FiniteSets

VARIABLES
    operations,  \* the []Operation argument of Execute
    e,           \* the *Executor: maxConcurrency, continueOnError, failFast
    results,     \* results := make([]Result, len(operations))
    sem,         \* number of tokens in the buffered channel sem
    wg,          \* counter of the sync.WaitGroup
    mu,          \* holder of the sync.Mutex: 0 when unlocked, else the worker
    hasError,    \* the shared failure flag
    i,           \* index of the submitting loop
    j,           \* index of the inner loop that marks skipped operations
    pcMain,      \* position of the goroutine that called Execute
    pc,          \* position of the worker goroutine of each operation
    invoked,     \* how many times operation.Exec() was called, per operation
    seen,        \* per worker: was a write of hasError ordered before its Lock
    recvs,       \* per receive from sem, in order: seen of the receiving worker
    writers,     \* per index of results: the tasks that stored into it, in order
    twin,        \* the same call on an executor that differs in continueOnError
    prev,        \* what the previous call of Execute returned, if there was one
    handler,     \* the command handler that runs, "none" for a bare Execute
    actionName,  \* the action or power command the handler was given
    selection,   \* how the targets are named: positional args, --all, --from-file
    flags,       \* the other bulk flags of the command line
    uuids,       \* the targets the handler resolved
    pcCmd,       \* position of the handler
    prompt,      \* what became of the confirmation prompt
    client,      \* has the API client of the batch been built
    format,      \* the output format, once the handler has read it
    ret,         \* where the handler returned and the error it returned
    exitCode,    \* the exit code of the process, once it has exited
    pairs,       \* the slice *pairs the backup closures append to
    closure,     \* per backup operation: position inside its Exec closure
    warnedAPITypes, \* the package-level map of the API types already warned
    warnedMutex, \* holder of the package-level mutex: 0 when unlocked
    stderr,      \* the warnings written to os.Stderr, in order
    callers      \* the goroutines that call warnIfTokenInConfig

execVars == <<operations, e, results, sem, wg, mu, hasError, i, j, pcMain, pc,
              invoked, seen, recvs, writers, twin, prev>>

cmdVars == <<handler, actionName, selection, flags, uuids, pcCmd, prompt,
             client, format, ret, exitCode>>

pkgVars == <<pairs, closure, warnedAPITypes, warnedMutex, stderr, callers>>

vars == <<operations, e, results, sem, wg, mu, hasError, i, j, pcMain, pc,
          invoked, seen, recvs, writers, twin, prev, handler, actionName,
          selection, flags, uuids, pcCmd, prompt, client, format, ret,
          exitCode, pairs, closure, warnedAPITypes, warnedMutex, stderr,
          callers>>

----------------------------------------------------------------------------
(* Bounds of the model.                                                    *)

MaxOps == 3
MaxConc == 2
MaxInvoke == 2
MaxOpsAgain == 2
MaxTargets == 2
MaxResults == 3
MaxConcCmd == 1
MaxBackups == 2
MaxOpsLive == 2
NumCallers == 2
MaxCalls == 2
NumOpsP4 == 10
FailingOpP4 == 3

(* Program constant: the default of NewExecutor.                           *)
DefaultConcurrency == 10

----------------------------------------------------------------------------
(* Data: Operation, Result, errors.                                        *)

Nil == [kind |-> "nil", of |-> 0]
SkipError == [kind |-> "skipped due to previous error", of |-> 0]
ExecError(id) == [kind |-> "exec", of |-> id]

\* An Operation: its ID and what its Exec closure returns (deterministic).
Op(id, fails) == [ID |-> id, Exec |-> IF fails THEN "err" ELSE "ok"]
ZeroOperation == [ID |-> 0, Exec |-> "nil"]

\* The zero value of Result, as make([]Result, n) fills the slice.
ZeroResult == [Operation |-> ZeroOperation, Success |-> FALSE, Error |-> Nil]

\* The error operation.Exec() returns.
Exec(operation) ==
    IF operation.Exec = "err" THEN ExecError(operation.ID) ELSE Nil

----------------------------------------------------------------------------
(* NewExecutor: a non-positive maxConcurrency becomes the default.         *)

\* Faulty variant of NewExecutor: maxConcurrency is taken as it is given.
NewExecutorNoDefault(maxConcurrency, continueOnError, failFast) ==
    [maxConcurrency  |-> maxConcurrency,
     continueOnError |-> continueOnError,
     failFast        |-> failFast]

NewExecutor(maxConcurrency, continueOnError, failFast) ==
    [maxConcurrency  |-> IF maxConcurrency <= 0 THEN DefaultConcurrency
                         ELSE maxConcurrency,
     continueOnError |-> continueOnError,
     failFast        |-> failFast]

----------------------------------------------------------------------------
(* The state of one call of Execute, as a record: the steps below are      *)
(* functions from such a record to the next one, so that the same step can *)
(* be taken by the call and by its twin.                                   *)

Len0(s) == Len(s.operations)
Idx(s) == 1..Len(s.operations)

\* The state at the entry of Execute, after lines 47-53.
Entry(ops, ex) ==
    [operations |-> ops,
     e          |-> ex,
     results    |-> [k \in 1..Len(ops) |-> ZeroResult],
     sem        |-> 0,
     wg         |-> 0,
     mu         |-> 0,
     hasError   |-> FALSE,
     i          |-> 1,
     j          |-> 0,
     pcMain     |-> "loop",
     pc         |-> [k \in 1..Len(ops) |-> "idle"],
     invoked    |-> [k \in 1..Len(ops) |-> 0],
     seen       |-> [k \in 1..Len(ops) |-> FALSE],
     recvs      |-> <<>>,
     writers    |-> [k \in 1..Len(ops) |-> <<>>]]

\* Go memory model: the k-th receive from a channel of capacity C is
\* synchronized before the completion of the (k+C)-th send.  The main
\* goroutine has completed s.i - 1 sends when it is at the head of the loop.
\* A write of hasError is ordered before the main goroutine's read iff the
\* writer's Unlock is ordered before the Lock of a worker whose receive is
\* ordered before one of the completed sends.
OrderedBeforeMain(s) ==
    \E k \in 1..Len(s.recvs) :
        k + s.e.maxConcurrency <= s.i - 1 /\ s.recvs[k]

\* Faulty variant of ReadHasError: no write is ever ordered before the read.
ReadHasErrorStale(s) ==
    IF ~s.hasError THEN {FALSE} ELSE {TRUE, FALSE}

\* Line 57 reads hasError without holding mu while workers write it under
\* mu: a data race.  The read returns the value of a write that is not
\* ordered after it: a write ordered before it hides the initial false,
\* otherwise the read may return the initial false or the written true.
ReadHasError(s) ==
    IF ~s.hasError THEN {FALSE}
    ELSE IF OrderedBeforeMain(s) THEN {TRUE}
    ELSE {TRUE, FALSE}

\* Faulty variants of FailFastCheck: the check consults continueOnError as well,
\* consults continueOnError instead of failFast, or ignores failFast.
FailFastUnlessContinue(ex, observed) ==
    (ex.failFast \/ ~ex.continueOnError) /\ observed
FailFastWrongFlag(ex, observed) == ex.continueOnError /\ observed
FailFastAlways(ex, observed) == observed

\* Line 57: if e.failFast && hasError
FailFastCheck(ex, observed) == ex.failFast /\ observed

\* Faulty variants of SkipFrom: the inner loop starts one too far, or at the start.
SkipFromNext(k) == k + 1
SkipFromStart(k) == 1

\* Line 59: the first index the inner loop marks, for j := i
SkipFrom(k) == k

\* Faulty variant of SkippedResult: the marker is left out.
SkippedResultNoMarker(operation) ==
    [Operation |-> operation, Success |-> FALSE, Error |-> Nil]

\* Lines 60-64: the Result of an operation that is not executed.
SkippedResult(operation) ==
    [Operation |-> operation, Success |-> FALSE, Error |-> SkipError]

\* Faulty variants of ExecResult: Success is set whatever Exec returned, or
\* the error Exec returned is dropped.
ExecResultAlwaysSuccess(operation) ==
    [Operation |-> operation, Success |-> TRUE, Error |-> Exec(operation)]
ExecResultNoError(operation) ==
    [Operation |-> operation, Success |-> Exec(operation) = Nil, Error |-> Nil]

\* Lines 76-89: the Result a worker builds from what Exec returned.
ExecResult(operation) ==
    [Operation |-> operation,
     Success   |-> Exec(operation) = Nil,
     Error     |-> Exec(operation)]

\* Faulty variant of SemHasRoom: the capacity is off by one.
SemHasRoomOffByOne(tokens, capacity) == tokens <= capacity

\* Line 70: a send on the buffered channel completes iff the buffer has room.
SemHasRoom(tokens, capacity) == tokens < capacity

\* Faulty variants of AfterExec: a failed action is tried again, or the
\* worker of a failed action ends without its deferred calls.
AfterExecRetry(err) == IF err # Nil THEN "start" ELSE "lockRes"
AfterExecLeak(err) == IF err # Nil THEN "exited" ELSE "lockRes"

\* Lines 81-89: where the worker goes when Exec has returned err.
AfterExec(err) == IF err # Nil THEN "lockErr" ELSE "lockRes"

\* Faulty variant of NextIndex: the loop passes over every other operation.
NextIndexSkipOne(k) == k + 2

\* Line 55: the loop advances to the next operation.
NextIndex(k) == k + 1

\* Faulty variant of ResultSlot: every worker stores into the first slot.
ResultSlotFirst(idx) == 1

\* Line 92: the slot a worker stores its result into, results[idx].
ResultSlot(idx) == idx

\* The tasks that store into results: the worker of operation idx is named
\* by idx, the inner loop of the calling goroutine by SkipLoop.
SkipLoop == 0

----------------------------------------------------------------------------
(* Steps of the goroutine that called Execute.                             *)

\* Lines 55-57 and 69: the head of the loop, the fail-fast check, wg.Add(1).
\* The Add is part of the step: the counter is read by wg.Wait() alone,
\* which the same goroutine calls after the loop.
\* observed is what the read of hasError returns, where it is read.
CanLoop(s, observed) == s.pcMain = "loop" /\ observed \in ReadHasError(s)
Loop(s, observed) ==
    IF s.i > Len0(s) THEN [s EXCEPT !.pcMain = "wait"]
    ELSE IF FailFastCheck(s.e, observed)
         THEN [s EXCEPT !.pcMain = "skip", !.j = SkipFrom(s.i)]
         ELSE [s EXCEPT !.pcMain = "acquire", !.wg = s.wg + 1]

\* Lines 59-66: one iteration of the inner loop, or its end and the break.
CanSkip(s) == s.pcMain = "skip"
\* An inner loop that would not be followed by the break of line 66: the
\* outer loop goes on with the next operation.
SkipNoBreak(s) ==
    IF s.j <= Len0(s)
    THEN [s EXCEPT !.results[s.j] = SkippedResult(s.operations[s.j]),
                   !.writers[s.j] = Append(s.writers[s.j], SkipLoop),
                   !.j = s.j + 1]
    ELSE [s EXCEPT !.pcMain = "loop", !.i = NextIndex(s.i)]
Skip(s) ==
    IF s.j <= Len0(s)
    THEN [s EXCEPT !.results[s.j] = SkippedResult(s.operations[s.j]),
                   !.writers[s.j] = Append(s.writers[s.j], SkipLoop),
                   !.j = s.j + 1]
    ELSE [s EXCEPT !.pcMain = "wait"]

\* Line 70: sem <- struct{}{}
CanAcquire(s) ==
    s.pcMain = "acquire" /\ SemHasRoom(s.sem, s.e.maxConcurrency)
Acquire(s) == [s EXCEPT !.pcMain = "go", !.sem = s.sem + 1]

\* Lines 72 and 94: go func(idx, operation) {...}(i, op)
CanGo(s) == s.pcMain = "go"
Go(s) == [s EXCEPT !.pcMain = "loop", !.pc[s.i] = "start",
                   !.i = NextIndex(s.i)]

\* Lines 97-98: wg.Wait() returns when the counter is zero; return results.
\* A return that would not wait for the workers (line 97 left out).
CanWaitForNone(s) == s.pcMain = "wait"
CanWait(s) == s.pcMain = "wait" /\ s.wg = 0
Wait(s) == [s EXCEPT !.pcMain = "done"]

----------------------------------------------------------------------------
(* Steps of the worker goroutine of operation idx (lines 72-94).           *)

At(s, idx, where) == idx \in Idx(s) /\ s.pc[idx] = where

\* Line 81: operation.Exec() is called.
CanCall(s, idx) == At(s, idx, "start") /\ s.invoked[idx] < MaxInvoke
Call(s, idx) == [s EXCEPT !.pc[idx] = "exec",
                          !.invoked[idx] = s.invoked[idx] + 1]

\* Line 81: operation.Exec() returns err.
CanReturn(s, idx) == At(s, idx, "exec")
Return(s, idx) ==
    [s EXCEPT !.pc[idx] = AfterExec(Exec(s.operations[idx]))]

\* Line 84: mu.Lock()
CanLockErr(s, idx) == At(s, idx, "lockErr") /\ s.mu = 0
LockErr(s, idx) == [s EXCEPT !.pc[idx] = "setErr", !.mu = idx]

\* Lines 85-86: hasError = true; mu.Unlock()
CanSetErr(s, idx) == At(s, idx, "setErr")
SetErr(s, idx) ==
    [s EXCEPT !.pc[idx] = "lockRes", !.hasError = TRUE, !.mu = 0]

\* Lines 91-93: mu.Lock(); results[idx] = result; mu.Unlock().  The Lock
\* is taken when mu is free, and every Unlock so far is ordered before it.
\* The critical section is one step: it touches results[idx] alone, which
\* no other goroutine accesses.
CanWrite(s, idx) == At(s, idx, "lockRes") /\ s.mu = 0
Write(s, idx) ==
    [s EXCEPT !.pc[idx] = "release", !.seen[idx] = s.hasError,
              !.results[ResultSlot(idx)] = ExecResult(s.operations[idx]),
              !.writers[ResultSlot(idx)] =
                  Append(s.writers[ResultSlot(idx)], idx)]

\* Lines 73-74, the deferred calls as the goroutine returns: <-sem, then
\* wg.Done().  They are one step: wg is read by wg.Wait() alone, which
\* cannot return before this Done, so a Done taken later than its receive
\* leads to no state of the other goroutines that this step does not.
CanExit(s, idx) == At(s, idx, "release")
\* A worker that would end without giving its slot back (line 74 left out).
ExitNoRelease(s, idx) ==
    [s EXCEPT !.pc[idx] = "exited", !.wg = s.wg - 1,
              !.recvs = Append(s.recvs, s.seen[idx]), !.seen[idx] = FALSE]
Exit(s, idx) ==
    [s EXCEPT !.pc[idx] = "exited", !.sem = s.sem - 1, !.wg = s.wg - 1,
              !.recvs = Append(s.recvs, s.seen[idx]), !.seen[idx] = FALSE]

----------------------------------------------------------------------------
(* GetSummary (lines 109-125): Total is the length, and the loop counts    *)
(* the results with Success into Success and the others into Failed.       *)

RECURSIVE CountFrom(_, _, _)
CountFrom(rs, k, acc) ==
    IF k > Len(rs) THEN acc
    ELSE IF rs[k].Success
         THEN CountFrom(rs, k + 1, [acc EXCEPT !.Success = acc.Success + 1])
         ELSE CountFrom(rs, k + 1, [acc EXCEPT !.Failed = acc.Failed + 1])

\* Faulty variant of GetSummary: the loop passes over the first result.
GetSummaryFromSecond(rs) ==
    CountFrom(rs, 2,
              [Total |-> Len(rs), Success |-> 0, Failed |-> 0, Results |-> rs])

GetSummary(rs) ==
    CountFrom(rs, 1,
              [Total |-> Len(rs), Success |-> 0, Failed |-> 0, Results |-> rs])

\* The three counts of a Summary, without the results it carries along.
Counts(summary) ==
    [Total |-> summary.Total, Success |-> summary.Success,
     Failed |-> summary.Failed]

\* A list of results with two of its entries exchanged.
Swap(rs, a, b) == [rs EXCEPT ![a] = rs[b], ![b] = rs[a]]

----------------------------------------------------------------------------
(* The call and its twin.                                                  *)

Cur ==
    [operations |-> operations, e |-> e, results |-> results, sem |-> sem,
     wg |-> wg, mu |-> mu, hasError |-> hasError, i |-> i, j |-> j,
     pcMain |-> pcMain, pc |-> pc, invoked |-> invoked, seen |-> seen,
     recvs |-> recvs, writers |-> writers]

Set(s) ==
    /\ operations' = s.operations
    /\ e' = s.e
    /\ results' = s.results
    /\ sem' = s.sem
    /\ wg' = s.wg
    /\ mu' = s.mu
    /\ hasError' = s.hasError
    /\ i' = s.i
    /\ j' = s.j
    /\ pcMain' = s.pcMain
    /\ pc' = s.pc
    /\ invoked' = s.invoked
    /\ seen' = s.seen
    /\ recvs' = s.recvs
    /\ writers' = s.writers

\* The variables hold the state s.
Is(s) ==
    /\ operations = s.operations
    /\ e = s.e
    /\ results = s.results
    /\ sem = s.sem
    /\ wg = s.wg
    /\ mu = s.mu
    /\ hasError = s.hasError
    /\ i = s.i
    /\ j = s.j
    /\ pcMain = s.pcMain
    /\ pc = s.pc
    /\ invoked = s.invoked
    /\ seen = s.seen
    /\ recvs = s.recvs
    /\ writers = s.writers

\* The twin is an executor built from the same arguments except
\* continueOnError, given the same operations and scheduled exactly as the
\* call is: it takes the step the call takes, with the same value read, and
\* is marked once it cannot.
OtherExecutor(ex) == [ex EXCEPT !.continueOnError = ~ex.continueOnError]
Diverged(s) == [s EXCEPT !.pcMain = "diverged"]
Follow(can, next) == twin' = IF can THEN next ELSE Diverged(twin)

\* The Success values of a list of results.
Pattern(rs) == [k \in DOMAIN rs |-> rs[k].Success]
NoCall == [called |-> FALSE, results |-> <<>>]

----------------------------------------------------------------------------
(* Initial states: every list of at most MaxOps operations, each failing   *)
(* or not, and every configuration.                                        *)

OpLists(n) ==
    UNION {[1..m -> BOOLEAN] : m \in 0..n}

Ops(fails) == [k \in DOMAIN fails |-> Op(k, fails[k])]

ConcInputs == (-1)..MaxConc

\* The values of the handler's variables before they are assigned.
NoSelection == [args |-> 0, all |-> FALSE, fromFile |-> FALSE]
NoFlags ==
    [maxConcurrency |-> 0, continueOnError |-> FALSE, failFast |-> FALSE,
     dryRun |-> FALSE, yes |-> FALSE]
NotReturned == [from |-> "", err |-> "nil"]
NotExited == -1

\* No backup closure exists and warnIfTokenInConfig has no caller.
NoPackageState ==
    /\ pairs = <<>>
    /\ closure = <<>>
    /\ warnedAPITypes = {}
    /\ warnedMutex = 0
    /\ stderr = <<>>
    /\ callers = <<>>

\* Execute is called by no handler: a bare call of the library.
NoHandler ==
    /\ handler = "none"
    /\ actionName = ""
    /\ selection = NoSelection
    /\ flags = NoFlags
    /\ uuids = <<>>
    /\ pcCmd = "none"
    /\ prompt = "none"
    /\ client = FALSE
    /\ format = "unread"
    /\ ret = NotReturned
    /\ exitCode = NotExited

Begin(ops, ex) ==
    /\ Is(Entry(ops, ex))
    /\ twin = Entry(ops, OtherExecutor(ex))
    /\ prev = NoCall
    /\ NoHandler
    /\ NoPackageState

Init ==
    \E fails \in OpLists(MaxOps), mc \in ConcInputs, coe \in BOOLEAN,
       ff \in BOOLEAN :
        Begin(Ops(fails), NewExecutor(mc, coe, ff))

----------------------------------------------------------------------------
(* Actions.                                                                *)

MainLoop ==
    \E observed \in BOOLEAN :
        /\ CanLoop(Cur, observed)
        /\ Set(Loop(Cur, observed))
        /\ Follow(CanLoop(twin, observed), Loop(twin, observed))
        /\ UNCHANGED <<prev, cmdVars, pkgVars>>

MainSkip ==
    /\ CanSkip(Cur)
    /\ Set(Skip(Cur))
    /\ Follow(CanSkip(twin), Skip(twin))
    /\ UNCHANGED <<prev, cmdVars, pkgVars>>

MainAcquire ==
    /\ CanAcquire(Cur)
    /\ Set(Acquire(Cur))
    /\ Follow(CanAcquire(twin), Acquire(twin))
    /\ UNCHANGED <<prev, cmdVars, pkgVars>>

MainGo ==
    /\ CanGo(Cur)
    /\ Set(Go(Cur))
    /\ Follow(CanGo(twin), Go(twin))
    /\ UNCHANGED <<prev, cmdVars, pkgVars>>

MainWait ==
    /\ CanWait(Cur)
    /\ Set(Wait(Cur))
    /\ Follow(CanWait(twin), Wait(twin))
    /\ UNCHANGED <<prev, cmdVars, pkgVars>>

WorkerCall ==
    \E idx \in DOMAIN operations :
        /\ CanCall(Cur, idx)
        /\ Set(Call(Cur, idx))
        /\ Follow(CanCall(twin, idx), Call(twin, idx))
        /\ UNCHANGED <<prev, cmdVars, pkgVars>>

WorkerReturn ==
    \E idx \in DOMAIN operations :
        /\ CanReturn(Cur, idx)
        /\ Set(Return(Cur, idx))
        /\ Follow(CanReturn(twin, idx), Return(twin, idx))
        /\ UNCHANGED <<prev, cmdVars, pkgVars>>

WorkerLockErr ==
    \E idx \in DOMAIN operations :
        /\ CanLockErr(Cur, idx)
        /\ Set(LockErr(Cur, idx))
        /\ Follow(CanLockErr(twin, idx), LockErr(twin, idx))
        /\ UNCHANGED <<prev, cmdVars, pkgVars>>

WorkerSetErr ==
    \E idx \in DOMAIN operations :
        /\ CanSetErr(Cur, idx)
        /\ Set(SetErr(Cur, idx))
        /\ Follow(CanSetErr(twin, idx), SetErr(twin, idx))
        /\ UNCHANGED <<prev, cmdVars, pkgVars>>

WorkerWrite ==
    \E idx \in DOMAIN operations :
        /\ CanWrite(Cur, idx)
        /\ Set(Write(Cur, idx))
        /\ Follow(CanWrite(twin, idx), Write(twin, idx))
        /\ UNCHANGED <<prev, cmdVars, pkgVars>>

WorkerExit ==
    \E idx \in DOMAIN operations :
        /\ CanExit(Cur, idx)
        /\ Set(Exit(Cur, idx))
        /\ Follow(CanExit(twin, idx), Exit(twin, idx))
        /\ UNCHANGED <<prev, cmdVars, pkgVars>>

Worker ==
    \/ WorkerCall
    \/ WorkerReturn
    \/ WorkerLockErr
    \/ WorkerSetErr
    \/ WorkerWrite
    \/ WorkerExit

Main == MainLoop \/ MainSkip \/ MainAcquire \/ MainGo \/ MainWait

Next == Main \/ Worker

Spec == Init /\ [][Next]_vars

\* The Go scheduler runs every goroutine that can take a step, and every
\* action that was called returns: the calling goroutine and the workers
\* are each treated fairly.
InitLive ==
    \E fails \in OpLists(MaxOpsLive), mc \in ConcInputs, coe \in BOOLEAN,
       ff \in BOOLEAN :
        Begin(Ops(fails), NewExecutor(mc, coe, ff))

SpecLive == InitLive /\ [][Next]_vars /\ WF_vars(Main) /\ WF_vars(Worker)

----------------------------------------------------------------------------
(* The same operations run through Execute a second time on the same       *)
(* executor: what the first call returned is kept in prev.                 *)

CallAgain ==
    /\ pcMain = "done"
    /\ ~prev.called
    /\ prev' = [called |-> TRUE, results |-> results]
    /\ Set(Entry(operations, e))
    /\ twin' = Entry(operations, twin.e)
    /\ UNCHANGED <<cmdVars, pkgVars>>

NextAgain == Main \/ Worker \/ CallAgain

InitAgain ==
    \E fails \in OpLists(MaxOpsAgain), mc \in ConcInputs, coe \in BOOLEAN,
       ff \in BOOLEAN :
        Begin(Ops(fails), NewExecutor(mc, coe, ff))

SpecAgain == InitAgain /\ [][NextAgain]_vars

----------------------------------------------------------------------------
(* The scenario of ten operations of which only the third fails, with      *)
(* failFast set.                                                           *)

InitP4 ==
    \E mc \in 1..MaxConc, coe \in BOOLEAN :
        Begin([k \in 1..NumOpsP4 |-> Op(k, k = FailingOpP4)],
              NewExecutor(mc, coe, TRUE))

SpecP4 == InitP4 /\ [][Next]_vars

----------------------------------------------------------------------------
(* The command handlers that run a batch: runServerAction, runServerHealth *)
(* and runBackupCreate of cmd/admin/server.go, runPowerCommand and         *)
(* runServerCommand of cmd/client.  A handler resolves its targets, asks   *)
(* for confirmation where it has to, stops there on --dry-run, builds the  *)
(* API client, runs the operations through Execute, prints, and returns an *)
(* error or nil; main turns the error into the exit code.                  *)
(*                                                                         *)
(* What the world answers is drawn where the handler asks: the servers the *)
(* panel lists, the lines of the file, the line typed at the prompt, the   *)
(* outcome of each action; the output format is drawn where the handler    *)
(* reads it.  Printing is taken to succeed.  Positional arguments are      *)
(* taken to name one server each.                                          *)

Handlers ==
    {"runServerAction", "runPowerCommand", "runServerCommand",
     "runServerHealth", "runBackupCreate"}

\* The action names a handler is called with.
ActionNames(h) ==
    CASE h = "runServerAction" -> {"suspend", "reinstall", "stop"}
      [] h = "runPowerCommand" -> {"start", "stop", "kill"}
      [] h = "runServerCommand" -> {"command"}
      [] h = "runServerHealth" -> {"health"}
      [] h = "runBackupCreate" -> {"backup create"}

ErrNoServersSpecified == "no servers specified"
ErrNoServersFound == "no servers found"
ErrAPI == "api error"
ErrReadFile == "failed to read file"
ErrReadResponse == "failed to read response"
ErrFailed == "operation(s) failed"

Returning(from, err) == [from |-> from, err |-> err]

\* The targets 1..n, as the list of their identifiers.
Targets(n) == [k \in 1..n |-> k]

\* runServerAction refuses an empty argument list before it reads any flag
\* (server.go lines 733-735); runServerHealth refuses it when neither --all
\* nor --from-file is given (validateHealthArgs).
RefusesArgs(h, sel) ==
    \/ h = "runServerAction" /\ sel.args = 0
    \/ h = "runServerHealth" /\ sel.args = 0 /\ ~sel.all /\ ~sel.fromFile

\* getServerUUIDs: --all wins over --from-file, which wins over the args.
Source(sel) ==
    IF sel.all THEN "all" ELSE IF sel.fromFile THEN "fromFile" ELSE "args"

\* The handlers that refuse an empty list of resolved targets, and the error
\* they return; runServerAction goes on with an empty list.
RequiresTargets(h) == h # "runServerAction"
ErrNoTargets(h) ==
    IF h = "runServerHealth" THEN ErrNoServersFound ELSE ErrNoServersSpecified

\* The handlers that call handleConfirmation or handlePowerConfirmation.
Confirms(h) == h \in {"runServerAction", "runPowerCommand"}

\* Faulty variant of NeedsConfirmation: stop is never asked about.
NeedsConfirmationKillOnly(h, name, uuidCount) ==
    name = "reinstall" \/ name = "kill"

\* handleConfirmation line 664, handlePowerConfirmation line 106.
NeedsConfirmation(h, name, uuidCount) ==
    CASE h = "runServerAction" ->
             name = "reinstall" \/ name = "kill"
                 \/ (name = "stop" /\ uuidCount > 1)
      [] h = "runPowerCommand" ->
             name = "kill" \/ (name = "stop" /\ uuidCount > 1)
      [] OTHER -> FALSE

\* The lines typed at the prompt, and strings.ToLower on them.
Responses == {"y", "Y", "yes", "Yes", "n", "no"}
ToLower(response) ==
    CASE response = "Y" -> "y"
      [] response = "Yes" -> "yes"
      [] OTHER -> response
Accepts(response) == ToLower(response) = "y" \/ ToLower(response) = "yes"

\* Faulty variant of AfterDryRunCheck: --dry-run is not looked at.
AfterDryRunCheckIgnored(dryRun) == "client"

\* if flags.dryRun { ...; return nil }
AfterDryRunCheck(dryRun) == IF dryRun THEN "returned" ELSE "client"

\* Does the handler return an error for a finished batch.
\* handleSummary, server.go lines 725-727.
HandleSummary(summary) == summary.Failed > 0
\* handlePowerSummary, part_006 lines 180-182.
HandlePowerSummary(summary, continueOnError) ==
    summary.Failed > 0 /\ ~continueOnError
\* printCommandResultsJSON, cmd/client/server.go lines 284-286.
PrintCommandResultsJSON(summary, continueOnError) ==
    summary.Failed > 0 /\ ~continueOnError
\* handleCommandSummary, cmd/client/server.go lines 305-307.
HandleCommandSummary(summary, continueOnError) ==
    summary.Failed > 0 /\ ~continueOnError
\* PrintBulkJSON, executor.go lines 157-159.
PrintBulkJSON(summary, continueOnError) ==
    summary.Failed > 0 /\ ~continueOnError
\* runServerHealthMultiple returns what printing returns, server.go 313-316.
RunServerHealthMultiple(summary) == FALSE
\* runBackupCreate, server.go lines 1156-1159.
BackupCreateSummary(summary) == summary.Failed > 0

BatchFails(h, fmt, summary, continueOnError) ==
    CASE h = "runServerAction" -> HandleSummary(summary)
      [] h = "runPowerCommand" ->
             IF fmt = "json"
             THEN PrintCommandResultsJSON(summary, continueOnError)
             ELSE HandlePowerSummary(summary, continueOnError)
      [] h = "runServerCommand" ->
             IF fmt = "json"
             THEN PrintCommandResultsJSON(summary, continueOnError)
             ELSE HandleCommandSummary(summary, continueOnError)
      [] h = "runServerHealth" -> RunServerHealthMultiple(summary)
      [] h = "runBackupCreate" -> BackupCreateSummary(summary)

\* main, lines 96-99: os.Exit(1) on an error, else the process ends with 0.
ExitCode(err) == IF err # "nil" THEN 1 ELSE 0

\* Execute has not been called.
NotCalled ==
    [Entry(<<>>, NewExecutor(DefaultConcurrency, FALSE, FALSE))
         EXCEPT !.pcMain = "uncalled"]

CmdConcInputs == 0..MaxConcCmd

InitCmd ==
    /\ Is(NotCalled)
    /\ twin = NotCalled
    /\ prev = NoCall
    /\ handler \in Handlers
    /\ actionName \in ActionNames(handler)
    /\ selection \in [args : 0..MaxTargets, all : BOOLEAN, fromFile : BOOLEAN]
    /\ flags \in [maxConcurrency : CmdConcInputs, continueOnError : BOOLEAN,
                  failFast : BOOLEAN, dryRun : BOOLEAN, yes : BOOLEAN]
    /\ uuids = <<>>
    /\ pcCmd = "args"
    /\ prompt = "none"
    /\ client = FALSE
    /\ format = "unread"
    /\ ret = NotReturned
    /\ exitCode = NotExited
    /\ NoPackageState

\* The handler returns err from the step named from.
Returns(from, err) ==
    /\ pcCmd' = "returned"
    /\ ret' = Returning(from, err)

\* The check of the arguments that comes before anything else.
CmdArgs ==
    /\ pcCmd = "args"
    /\ IF RefusesArgs(handler, selection)
       THEN Returns("args", ErrNoServersSpecified)
       ELSE pcCmd' = "resolve" /\ UNCHANGED ret
    /\ UNCHANGED <<pkgVars, execVars, handler, actionName,
                   selection, flags, uuids,
                   prompt, client, format, exitCode>>

\* The handler goes on with the targets 1..n.
Resolved(n) ==
    IF RequiresTargets(handler) /\ n = 0
    THEN Returns("resolve", ErrNoTargets(handler)) /\ UNCHANGED uuids
    ELSE /\ uuids' = Targets(n)
         /\ pcCmd' = IF Confirms(handler) THEN "confirm" ELSE "dryRun"
         /\ UNCHANGED ret

\* getServerUUIDs and the check of the list it returns.  --all builds an
\* API client of its own to list the servers; the call can fail, as can the
\* reading of the file.
CmdResolve ==
    /\ pcCmd = "resolve"
    /\ CASE Source(selection) = "all" ->
                \/ Returns("resolve", ErrAPI) /\ UNCHANGED uuids
                \/ \E n \in 0..MaxTargets : Resolved(n)
         [] Source(selection) = "fromFile" ->
                \/ Returns("resolve", ErrReadFile) /\ UNCHANGED uuids
                \/ \E n \in 0..MaxTargets : Resolved(n)
         [] OTHER -> Resolved(selection.args)
    /\ UNCHANGED <<pkgVars, execVars, handler, actionName,
                   selection, flags, prompt,
                   client, format, exitCode>>

\* handleConfirmation, handlePowerConfirmation: --yes and harmless actions
\* pass; otherwise a line is read, and anything but y or yes ends the
\* command without error.
CmdConfirm ==
    /\ pcCmd = "confirm"
    /\ IF flags.yes \/ ~NeedsConfirmation(handler, actionName, Len(uuids))
       THEN pcCmd' = "dryRun" /\ UNCHANGED <<prompt, ret>>
       ELSE \/ prompt' = "failed" /\ Returns("confirm", ErrReadResponse)
            \/ \E response \in Responses :
                   IF Accepts(response)
                   THEN /\ prompt' = "accepted"
                        /\ pcCmd' = "dryRun"
                        /\ UNCHANGED ret
                   ELSE /\ prompt' = "declined"
                        /\ Returns("confirm", "nil")
    /\ UNCHANGED <<pkgVars, execVars, handler, actionName,
                   selection, flags, uuids,
                   client, format, exitCode>>

\* if dryRun { print the targets; return nil }
CmdDryRun ==
    /\ pcCmd = "dryRun"
    /\ pcCmd' = AfterDryRunCheck(flags.dryRun)
    /\ ret' = IF pcCmd' = "returned" THEN Returning("dryRun", "nil") ELSE ret
    /\ UNCHANGED <<pkgVars, execVars, handler, actionName,
                   selection, flags, uuids,
                   prompt, client, format, exitCode>>

\* api.NewApplicationAPI(), api.NewClientAPI(): the client of the batch.
\* The handler does not read args, all and fromFile again: they are dropped
\* from the state here.  runServerHealth calls the API directly for a single
\* target.
CmdClient ==
    /\ pcCmd = "client"
    /\ \/ Returns("client", ErrAPI) /\ UNCHANGED <<client, selection>>
       \/ /\ client' = TRUE
          /\ selection' = NoSelection
          /\ pcCmd' = IF handler = "runServerHealth" /\ Len(uuids) = 1
                      THEN "single" ELSE "execute"
          /\ UNCHANGED ret
    /\ UNCHANGED <<pkgVars, execVars, handler, actionName,
                   flags, uuids, prompt,
                   format, exitCode>>

\* runServerHealthSingle: one call of the API, no executor.
CmdSingle ==
    /\ pcCmd = "single"
    /\ \E err \in {"nil", ErrAPI} : Returns("single", err)
    /\ UNCHANGED <<pkgVars, execVars, handler, actionName,
                   selection, flags, uuids,
                   prompt, client, format, exitCode>>

\* executeBulkOperations and its like: one operation per target, then
\* NewExecutor(maxConcurrency, continueOnError, failFast) and Execute.
CmdExecute ==
    /\ pcCmd = "execute"
    /\ pcMain = "uncalled"
    /\ \E fails \in [1..Len(uuids) -> BOOLEAN] :
           /\ Set(Entry(Ops(fails),
                        NewExecutor(flags.maxConcurrency,
                                    flags.continueOnError, flags.failFast)))
           /\ twin' = Entry(Ops(fails),
                            OtherExecutor(
                                NewExecutor(flags.maxConcurrency,
                                            flags.continueOnError,
                                            flags.failFast)))
    /\ UNCHANGED <<prev, cmdVars, pkgVars>>

\* Execute has returned: the results are printed in the output format and
\* the handler returns.
CmdSummary ==
    /\ pcCmd = "execute"
    /\ pcMain = "done"
    /\ \E fmt \in {"json", "table"} :
           /\ format' = fmt
           /\ Returns("summary",
                      IF BatchFails(handler, fmt, GetSummary(results),
                                    flags.continueOnError)
                      THEN ErrFailed ELSE "nil")
    /\ UNCHANGED <<pkgVars, execVars, handler, actionName,
                   selection, flags, uuids,
                   prompt, client, exitCode>>

\* main: the process exits.
CmdExit ==
    /\ pcCmd = "returned"
    /\ pcCmd' = "exited"
    /\ exitCode' = ExitCode(ret.err)
    /\ UNCHANGED <<pkgVars, execVars, handler, actionName,
                   selection, flags, uuids,
                   prompt, client, format, ret>>

Cmd ==
    \/ CmdArgs
    \/ CmdResolve
    \/ CmdConfirm
    \/ CmdDryRun
    \/ CmdClient
    \/ CmdSingle
    \/ CmdExecute
    \/ CmdSummary
    \/ CmdExit

NextCmd == Cmd \/ Main \/ Worker

SpecCmd == InitCmd /\ [][NextCmd]_vars

----------------------------------------------------------------------------
(* GetSummary on its own: every list of at most MaxResults results, each   *)
(* the Result of an action that succeeded, of one that failed, or of a     *)
(* skipped operation, and every reordering of it.  prev keeps the list as   *)
(* it was given.                                                           *)

ResultsOf(k) ==
    {ExecResult(Op(k, FALSE)), ExecResult(Op(k, TRUE)),
     SkippedResult(Op(k, FALSE))}

ResultLists ==
    UNION {{rs \in [1..n -> UNION {ResultsOf(k) : k \in 1..n}] :
               \A k \in 1..n : rs[k] \in ResultsOf(k)} : n \in 0..MaxResults}

InitSummary ==
    \E rs \in ResultLists :
        /\ Is([NotCalled EXCEPT !.results = rs])
        /\ twin = NotCalled
        /\ prev = [called |-> TRUE, results |-> rs]
        /\ NoHandler
        /\ NoPackageState

Reorder ==
    /\ \E a, b \in DOMAIN results :
           /\ a < b
           /\ results' = Swap(results, a, b)
    /\ UNCHANGED <<operations, e, sem, wg, mu, hasError, i, j, pcMain, pc,
                   invoked, seen, recvs, writers, twin, prev, cmdVars, pkgVars>>

SpecSummary == InitSummary /\ [][Reorder]_vars

----------------------------------------------------------------------------
(* Bulk backup creation (cmd/admin/server.go, createBackupOperations and   *)
(* runBackupCreate): the Exec closure of each operation calls the API and, *)
(* when the response carries a uuid string, appends a pair to the slice    *)
(* that all the closures share through the pointer pairs.  The closures    *)
(* run in the worker goroutines of Execute and take no lock: the append is *)
(* a load of the slice header, a store of the element and a store of the   *)
(* new header, concurrent with those of the other closures.                *)

BackupPair(k) == [ServerID |-> k, BackupUUID |-> k]
NotStarted == [at |-> "idle", uuid |-> FALSE, loaded |-> <<>>]

\* The element a closure's append leaves in the slot after the header it
\* loaded: its own pair, or the pair of another closure that loaded the same
\* header and stores into the same slot of a shared backing array.
Elements(idx) ==
    {BackupPair(idx)} \cup
        {BackupPair(k) : k \in {n \in DOMAIN closure :
                                   /\ n # idx
                                   /\ closure[n].uuid
                                   /\ closure[n].at \in {"store", "done"}
                                   /\ closure[n].loaded = closure[idx].loaded}}

\* Line 1051: client.CreateBackup(uuid, backupData); lines 1052-1054 return
\* its error, line 1056 looks for a uuid string in the response.
BackupCreate ==
    \E idx \in DOMAIN closure :
        /\ pc[idx] = "exec"
        /\ closure[idx].at = "idle"
        /\ IF Exec(operations[idx]) # Nil
           THEN closure' = [closure EXCEPT ![idx].at = "done"]
           ELSE \E ok \in BOOLEAN :
                    closure' = [closure EXCEPT
                                    ![idx].at = IF ok THEN "load" ELSE "done",
                                    ![idx].uuid = ok]
        /\ UNCHANGED <<execVars, cmdVars, pairs, warnedAPITypes, warnedMutex,
                       stderr, callers>>

\* Line 1057, append(*pairs, ...): the slice header is read.
BackupLoad ==
    \E idx \in DOMAIN closure :
        /\ closure[idx].at = "load"
        /\ closure' = [closure EXCEPT ![idx].at = "store",
                                      ![idx].loaded = pairs]
        /\ UNCHANGED <<execVars, cmdVars, pairs, warnedAPITypes, warnedMutex,
                       stderr, callers>>

\* Line 1057, *pairs = ...: the header of the extended slice is stored.
BackupStore ==
    \E idx \in DOMAIN closure :
        /\ closure[idx].at = "store"
        /\ \E pair \in Elements(idx) :
               pairs' = Append(closure[idx].loaded, pair)
        /\ closure' = [closure EXCEPT ![idx].at = "done"]
        /\ UNCHANGED <<execVars, cmdVars, warnedAPITypes, warnedMutex,
                       stderr, callers>>

\* Lines 1054, 1059: the closure returns to its worker.
BackupReturn ==
    \E idx \in DOMAIN closure :
        /\ closure[idx].at = "done"
        /\ CanReturn(Cur, idx)
        /\ Set(Return(Cur, idx))
        /\ Follow(CanReturn(twin, idx), Return(twin, idx))
        /\ UNCHANGED <<prev, cmdVars, pkgVars>>

\* Lines 1141-1147: var pairs []backupPair, the operations, the executor
\* built from the flags, Execute.
InitBackup ==
    \E fails \in OpLists(MaxBackups), mc \in 1..MaxConc, coe \in BOOLEAN,
       ff \in BOOLEAN :
        /\ Is(Entry(Ops(fails), NewExecutor(mc, coe, ff)))
        /\ twin = Entry(Ops(fails), OtherExecutor(NewExecutor(mc, coe, ff)))
        /\ prev = NoCall
        /\ NoHandler
        /\ pairs = <<>>
        /\ closure = [k \in 1..Len(Ops(fails)) |-> NotStarted]
        /\ warnedAPITypes = {}
        /\ warnedMutex = 0
        /\ stderr = <<>>
        /\ callers = <<>>

NextBackup ==
    \/ Main
    \/ WorkerCall
    \/ BackupCreate
    \/ BackupLoad
    \/ BackupStore
    \/ BackupReturn
    \/ WorkerLockErr
    \/ WorkerSetErr
    \/ WorkerWrite
    \/ WorkerExit

SpecBackup == InitBackup /\ [][NextBackup]_vars

----------------------------------------------------------------------------
(* warnIfTokenInConfig of package auth (listed in README.md, lines         *)
(* 678-708): a package-level map of the API types already warned and a     *)
(* package-level mutex.  The function locks the mutex, returns if the map   *)
(* has the API type, and otherwise enters it and writes the warning to     *)
(* os.Stderr; the deferred Unlock runs as it returns.  It is called from    *)
(* GetToken, by any goroutine, with the API type client or admin.          *)

APITypes == {"client", "admin"}
Outside == [at |-> "idle", apiType |-> "", calls |-> 0, returned |-> {}]

\* A Lock that would not wait for the holder.
WarnedMutexNotHeld(holder) == TRUE

\* Line 696, warnedMutex.Lock(): taken when no goroutine holds the mutex.
WarnedMutexFree(holder) == holder = 0

\* Line 742: GetToken calls warnIfTokenInConfig(apiType).
WarnCall ==
    \E c \in DOMAIN callers, apiType \in APITypes :
        /\ callers[c].at = "idle"
        /\ callers[c].calls < MaxCalls
        /\ callers' = [callers EXCEPT ![c].at = "lock",
                                      ![c].apiType = apiType,
                                      ![c].calls = callers[c].calls + 1]
        /\ UNCHANGED <<execVars, cmdVars, pairs, closure, warnedAPITypes,
                       warnedMutex, stderr>>

\* Line 696: warnedMutex.Lock()
WarnLock ==
    \E c \in DOMAIN callers :
        /\ callers[c].at = "lock"
        /\ WarnedMutexFree(warnedMutex)
        /\ warnedMutex' = c
        /\ callers' = [callers EXCEPT ![c].at = "check"]
        /\ UNCHANGED <<execVars, cmdVars, pairs, closure, warnedAPITypes,
                       stderr>>

\* Lines 699-701: if warnedAPITypes[apiType] { return }
WarnCheck ==
    \E c \in DOMAIN callers :
        /\ callers[c].at = "check"
        /\ callers' = [callers EXCEPT
                           ![c].at = IF callers[c].apiType \in warnedAPITypes
                                     THEN "unlock" ELSE "mark"]
        /\ UNCHANGED <<execVars, cmdVars, pairs, closure, warnedAPITypes,
                       warnedMutex, stderr>>

\* Line 703: warnedAPITypes[apiType] = true
WarnMark ==
    \E c \in DOMAIN callers :
        /\ callers[c].at = "mark"
        /\ warnedAPITypes' = warnedAPITypes \cup {callers[c].apiType}
        /\ callers' = [callers EXCEPT ![c].at = "print"]
        /\ UNCHANGED <<execVars, cmdVars, pairs, closure, warnedMutex,
                       stderr>>

\* Lines 704-707: fmt.Fprintf(os.Stderr, ...)
WarnPrint ==
    \E c \in DOMAIN callers :
        /\ callers[c].at = "print"
        /\ stderr' = Append(stderr, callers[c].apiType)
        /\ callers' = [callers EXCEPT ![c].at = "unlock"]
        /\ UNCHANGED <<execVars, cmdVars, pairs, closure, warnedAPITypes,
                       warnedMutex>>

\* Line 697, defer warnedMutex.Unlock(): runs as the function returns.
WarnUnlock ==
    \E c \in DOMAIN callers :
        /\ callers[c].at = "unlock"
        /\ warnedMutex' = 0
        /\ callers' = [callers EXCEPT
                           ![c].at = "idle",
                           ![c].returned =
                               callers[c].returned \cup {callers[c].apiType}]
        /\ UNCHANGED <<execVars, cmdVars, pairs, closure, warnedAPITypes,
                       stderr>>

\* The process has started: the map is empty (line 681) and the mutex is
\* unlocked, and no goroutine is inside the function.
InitWarn ==
    /\ Is(NotCalled)
    /\ twin = NotCalled
    /\ prev = NoCall
    /\ NoHandler
    /\ pairs = <<>>
    /\ closure = <<>>
    /\ warnedAPITypes = {}
    /\ warnedMutex = 0
    /\ stderr = <<>>
    /\ callers = [c \in 1..NumCallers |-> Outside]

NextWarn ==
    \/ WarnCall
    \/ WarnLock
    \/ WarnCheck
    \/ WarnMark
    \/ WarnPrint
    \/ WarnUnlock

SpecWarn == InitWarn /\ [][NextWarn]_vars

----------------------------------------------------------------------------
(* Properties of Execute.                                                  *)

Returned == pcMain = "done"
Submitted(k) == pc[k] # "idle"
Skipped(k) == results[k].Error = SkipError
\* The fail-fast check has found the flag set: the loop was left at index i.
FailureObserved == j > 0

\* C1: Execute returns exactly one result per input operation, and the
\* Operation stored in result k is input operation k, for every list
\* (the empty one included), configuration and interleaving.
C1_Completeness ==
    Returned =>
        /\ DOMAIN results = DOMAIN operations
        /\ Len(results) = Len(operations)
        /\ \A k \in DOMAIN operations : results[k].Operation = operations[k]

C1_Witness ==
    /\ Returned
    /\ Len(operations) = MaxOps
    /\ \E k \in DOMAIN results : Skipped(k)
    /\ \E k \in DOMAIN results : results[k].Success

\* C2: at every moment the number of operations whose action is running
\* is at most the executor's maxConcurrency (the coerced value).
Running == {k \in DOMAIN pc : pc[k] = "exec"}

C2_ConcurrencyBound == Cardinality(Running) <= e.maxConcurrency

C2_Witness ==
    /\ Cardinality(Running) = e.maxConcurrency
    /\ Len(operations) > e.maxConcurrency
    /\ e.maxConcurrency = MaxConc
    /\ pcMain = "acquire"

C4_InFlightCompletes ==
    e.failFast =>
        \A k \in DOMAIN operations :
            /\ pc[k] \in {"release", "exited"} =>
                   results[k] = ExecResult(operations[k])
            /\ (Returned /\ Submitted(k)) =>
                /\ pc[k] = "exited"
                /\ invoked[k] = 1
                /\ results[k] = ExecResult(operations[k])
                /\ ~Skipped(k)

\* An action is still running after the remaining operations were marked.
C4_Witness ==
    /\ e.failFast
    /\ pcMain = "wait"
    /\ j > Len(operations)
    /\ \E k \in DOMAIN pc : pc[k] = "exec"
    /\ \E k \in DOMAIN results : Skipped(k)

\* C5 (as stated): with failFast and ten operations of which only the third
\* fails, the last operation's Result carries the skip marker.
C5_LastSkipped ==
    Returned => Skipped(Len(operations))

\* C5 (amended): the same holds when maxConcurrency is 1, where the failing
\* worker's release of its slot is ordered before the check that follows the
\* next submission: every operation from the second one after the failing
\* one on is skipped.  With two slots or more the failing action can outlast
\* the submission of all the others.
C5_LastSkippedSerial ==
    (Returned /\ e.maxConcurrency = 1) =>
        \A k \in (FailingOpP4 + 2)..Len(operations) :
            Skipped(k) /\ invoked[k] = 0

C5_Witness ==
    /\ Returned
    /\ e.maxConcurrency = 1
    /\ results[FailingOpP4] = ExecResult(operations[FailingOpP4])
    /\ results[FailingOpP4 + 1].Success
    /\ Skipped(Len(operations))

\* C6 (as stated): two calls of Execute on the same operations with the
\* same configuration return the same Success value for every operation.
C6_SamePattern ==
    (Returned /\ prev.called) => Pattern(results) = Pattern(prev.results)

\* C6 (amended): the two calls return the same Success value for every
\* operation when failFast is false; when failFast is true they agree on
\* every operation that both calls executed, and differ only where one
\* call skipped an operation that the other one ran.
C6_SamePatternUnlessSkipped ==
    (Returned /\ prev.called) =>
        /\ ~e.failFast => Pattern(results) = Pattern(prev.results)
        /\ \A k \in DOMAIN results :
               (~Skipped(k) /\ prev.results[k].Error # SkipError) =>
                   results[k] = prev.results[k]

C6_Witness ==
    /\ Returned
    /\ prev.called
    /\ ~e.failFast
    /\ e.maxConcurrency > 1
    /\ Len(operations) = MaxOpsAgain
    /\ \E k \in DOMAIN results : results[k].Success
    /\ \E k \in DOMAIN results : ~results[k].Success

\* C7: continueOnError does not change scheduling: the executor that differs
\* only in continueOnError, given the same operations and the same
\* interleaving, can take every step the call takes, invokes the same
\* actions and holds the same results.
C7_ContinueOnErrorIgnored ==
    /\ twin.e.continueOnError # e.continueOnError
    /\ twin = [Cur EXCEPT !.e = twin.e]

C7_Witness ==
    /\ Returned
    /\ twin.pcMain = "done"
    /\ ~e.continueOnError
    /\ twin.e.continueOnError
    /\ \E k \in DOMAIN results : invoked[k] = 1 /\ ~results[k].Success
    /\ \E k \in DOMAIN results : invoked[k] = 1 /\ results[k].Success

\* C8: with failFast false every action is invoked exactly once, no Result
\* carries the skip marker, result k has Success iff action k returned no
\* error and carries that error otherwise; the summary counts them.
Failing == {k \in DOMAIN operations : Exec(operations[k]) # Nil}

C8_NoFailFast ==
    ~e.failFast =>
        /\ \A k \in DOMAIN results : ~Skipped(k)
        /\ Returned =>
            /\ \A k \in DOMAIN operations :
                /\ invoked[k] = 1
                /\ results[k].Success <=> Exec(operations[k]) = Nil
                /\ results[k].Error = Exec(operations[k])
            /\ GetSummary(results).Total = Len(operations)
            /\ GetSummary(results).Failed = Cardinality(Failing)
            /\ GetSummary(results).Success =
                   Len(operations) - Cardinality(Failing)

C8_Witness ==
    /\ Returned
    /\ ~e.failFast
    /\ e.maxConcurrency = 2
    /\ Len(operations) = 3
    /\ Failing = {2}
    /\ GetSummary(results).Total = 3
    /\ GetSummary(results).Success = 2
    /\ GetSummary(results).Failed = 1
    /\ results[2].Error = ExecError(2)

\* C9: every action is invoked at most once during a call: once for an
\* operation that was submitted, never for one that was skipped.
C9_AtMostOnce ==
    \A k \in DOMAIN operations :
        /\ invoked[k] <= 1
        /\ pc[k] \in {"idle", "start"} => invoked[k] = 0
        /\ pc[k] \notin {"idle", "start"} => invoked[k] = 1
        /\ Skipped(k) => invoked[k] = 0
        /\ Returned => (invoked[k] = 1 <=> ~Skipped(k))

C9_Witness ==
    /\ Returned
    /\ \E k \in DOMAIN operations : invoked[k] = 1 /\ ~results[k].Success
    /\ \E k \in DOMAIN operations : invoked[k] = 0 /\ Skipped(k)

\* C10: every read and every write of hasError is made while holding mu, so
\* the read of the fail-fast check is never concurrent with a worker's
\* write: the main goroutine is never about to read the flag while a worker
\* is about to write it.
MainReadsFlag == pcMain = "loop" /\ i <= Len(operations) /\ e.failFast
WorkerWritesFlag(k) == pc[k] = "setErr"

C10_FlagUnderLock ==
    /\ \A k \in DOMAIN pc : WorkerWritesFlag(k) => mu = k
    /\ ~(MainReadsFlag /\ \E k \in DOMAIN pc : WorkerWritesFlag(k))

\* C11: each index of results is stored into at most once while Execute
\* runs and exactly once by the time it returns, and the one task that
\* stores into index k is the worker of operation k or the skip loop, never
\* both and never another worker.
C11_WrittenOnce ==
    \A k \in DOMAIN results :
        /\ Len(writers[k]) <= 1
        /\ \A n \in DOMAIN writers[k] : writers[k][n] \in {k, SkipLoop}
        /\ Returned => Len(writers[k]) = 1
        /\ (Len(writers[k]) = 1 /\ writers[k][1] = k) =>
               /\ pc[k] \in {"release", "exited"}
               /\ results[k] = ExecResult(operations[k])
        /\ (Len(writers[k]) = 1 /\ writers[k][1] = SkipLoop) =>
               /\ ~Submitted(k)
               /\ results[k] = SkippedResult(operations[k])

\* Two workers and the skip loop have each stored into their own index.
C11_Witness ==
    /\ Returned
    /\ Len(operations) = 3
    /\ writers[1] = <<1>>
    /\ writers[2] = <<2>>
    /\ writers[3] = <<SkipLoop>>

\* C12: the slots held in sem are those of the operations that were
\* submitted and have not finished (an operation counts as submitted from
\* the moment the send of line 70 has taken its slot); a worker gives its
\* slot back once, after its action has returned and its result is stored,
\* whether the action failed or not; no slot is held when Execute returns.
Unfinished ==
    {k \in DOMAIN pc : pc[k] \notin {"idle", "exited"}}
        \cup (IF pcMain = "go" THEN {i} ELSE {})
Finished == {k \in DOMAIN pc : pc[k] = "exited"}

C12_SlotAccounting ==
    /\ sem = Cardinality(Unfinished)
    /\ Len(recvs) = Cardinality(Finished)
    /\ \A k \in Finished :
           /\ invoked[k] = 1
           /\ results[k] = ExecResult(operations[k])
    /\ Returned => (sem = 0 /\ Unfinished = {})

\* Three operations went through two slots; one failed, one succeeded.
C12_Witness ==
    /\ Returned
    /\ e.maxConcurrency = 2
    /\ Len(recvs) = 3
    /\ sem = 0
    /\ \E k \in Finished : results[k].Success
    /\ \E k \in Finished : ~results[k].Success

\* C13: operations are submitted in input order: the submitted operations
\* are always exactly those before the loop index, so operation i takes its
\* slot and is started only when every earlier one has been submitted;
\* their actions may finish in any order.
C13_SubmissionOrder ==
    /\ \A k \in DOMAIN operations : Submitted(k) <=> k < i
    /\ pcMain \in {"acquire", "go"} =>
           /\ i \in DOMAIN operations
           /\ ~Submitted(i)
           /\ \A m \in 1..(i - 1) : Submitted(m)

\* The second operation has finished while the first is still running and
\* the third is being submitted.
C13_Witness ==
    /\ Len(operations) = 3
    /\ pc[1] = "exec"
    /\ pc[2] = "exited"
    /\ pcMain = "go"
    /\ i = 3

\* C14: in every Result that Execute returns the error is present iff
\* Success is false: an operation whose action ran and returned no error has
\* none, one whose action failed carries the error its action returned, and
\* one that was not run carries the skip error.
C14_ErrorIffFailed ==
    Returned =>
        \A k \in DOMAIN results :
            /\ results[k].Error # Nil <=> ~results[k].Success
            /\ (invoked[k] = 1 /\ Exec(operations[k]) = Nil) =>
                   (results[k].Success /\ results[k].Error = Nil)
            /\ (invoked[k] = 1 /\ Exec(operations[k]) # Nil) =>
                   results[k].Error = ExecError(operations[k].ID)
            /\ invoked[k] = 0 => results[k].Error = SkipError

\* One operation succeeded, one failed, one was skipped.
C14_Witness ==
    /\ Returned
    /\ Len(results) = 3
    /\ results[1].Success /\ results[1].Error = Nil
    /\ ~results[2].Success /\ results[2].Error = ExecError(2)
    /\ ~results[3].Success /\ results[3].Error = SkipError

\* C15: a Result carries the marker "skipped due to previous error" iff the
\* action of its operation was never invoked: no Result of an action that
\* ran ever carries it, every operation whose action has not run by the
\* time Execute returns carries it, and the Result of an action that ran
\* and failed holds the action's own error, which is not the marker.
RanAndFailed(k) == invoked[k] > 0 /\ ~results[k].Success

C15_MarkerIffNeverInvoked ==
    \A k \in DOMAIN results :
        /\ Skipped(k) => invoked[k] = 0
        /\ Returned => (Skipped(k) <=> invoked[k] = 0)
        /\ (Returned /\ RanAndFailed(k)) =>
               /\ results[k].Error = Exec(operations[k])
               /\ results[k].Error.kind # SkipError.kind

\* Both results have Success false: the first ran and failed, the second was
\* never attempted.
C15_Witness ==
    /\ Returned
    /\ Len(results) = 2
    /\ RanAndFailed(1) /\ results[1].Error = ExecError(1)
    /\ invoked[2] = 0 /\ ~results[2].Success /\ Skipped(2)

\* C16: GetSummary returns Total equal to the number of results, Success
\* equal to the number of results whose Success is true and Failed equal to
\* the number of the others, so that Success + Failed = Total; the three
\* counts of a reordered list are those of the list as it was given.
C16_SummaryCounts ==
    /\ GetSummary(results).Total = Len(results)
    /\ GetSummary(results).Success =
           Cardinality({k \in DOMAIN results : results[k].Success})
    /\ GetSummary(results).Failed =
           Cardinality({k \in DOMAIN results : ~results[k].Success})
    /\ GetSummary(results).Success + GetSummary(results).Failed =
           GetSummary(results).Total
    /\ GetSummary(results).Results = results
    /\ prev.called =>
           Counts(GetSummary(results)) = Counts(GetSummary(prev.results))

\* One success and two failures, in another order than they were given.
C16_Witness ==
    /\ prev.called
    /\ pcMain = "uncalled"
    /\ Counts(GetSummary(results)) = [Total |-> 3, Success |-> 1, Failed |-> 2]
    /\ Pattern(results) # Pattern(prev.results)

----------------------------------------------------------------------------
(* Properties of the command handlers.                                     *)

Called == pcMain # "uncalled"

\* C17: NewExecutor turns a zero or negative maxConcurrency into 10 and
\* keeps a positive one (checked, before the executor is built, for every
\* value it could be given); the executor a handler builds from
\* --max-concurrency 0 has 10 slots, so that the send that admits an
\* operation is never refused while fewer than 10 are in flight, and a
\* send that has to wait always has a running worker to wait for.
C17_DefaultCoercion ==
    /\ ~Called =>
           \A mc \in (-MaxConc)..(10 + MaxConc), coe, ff \in BOOLEAN :
               /\ NewExecutor(mc, coe, ff).maxConcurrency =
                      IF mc <= 0 THEN 10 ELSE mc
               /\ NewExecutor(mc, coe, ff).continueOnError = coe
               /\ NewExecutor(mc, coe, ff).failFast = ff
    /\ Called =>
           e.maxConcurrency =
               IF flags.maxConcurrency <= 0 THEN 10 ELSE flags.maxConcurrency
    /\ (Called /\ flags.maxConcurrency <= 0 /\ pcMain = "acquire") =>
           CanAcquire(Cur)
    /\ (pcMain = "acquire" /\ ~CanAcquire(Cur)) =>
           \E k \in DOMAIN pc : pc[k] \notin {"idle", "exited"}

\* With --max-concurrency 0 two actions run at the same time.
C17_Witness ==
    /\ handler # "none"
    /\ flags.maxConcurrency = 0
    /\ e.maxConcurrency = 10
    /\ Len(operations) = 2
    /\ Running = {1, 2}

\* The handler has returned from the step that follows Execute.
BatchFinished == pcCmd \in {"returned", "exited"} /\ ret.from = "summary"
FailedCount == GetSummary(results).Failed

\* C18: every handler returns an error for a finished batch iff the summary
\* has Failed > 0 and continueOnError is false: with continueOnError true a
\* batch with failures returns nil.  The same for PrintBulkJSON.
C18_FatalIffNotContinue ==
    /\ BatchFinished =>
           (ret.err # "nil" <=> (FailedCount > 0 /\ ~flags.continueOnError))
    /\ \A coe \in BOOLEAN :
           PrintBulkJSON(GetSummary(results), coe) <=>
               (FailedCount > 0 /\ ~coe)

\* C19: every handler, runServerHealth on several servers and
\* runBackupCreate included, returns an error when at least one operation
\* of the batch failed and continueOnError is false, and the process then
\* exits with a code other than 0.
C19_FailureExitsNonZero ==
    (BatchFinished /\ FailedCount > 0 /\ ~flags.continueOnError) =>
        /\ ret.err # "nil"
        /\ pcCmd = "exited" => exitCode # 0

\* C20: a handler that finds --dry-run set at its dry-run step returns nil
\* there, whatever the targets: Execute is not called, no action is invoked,
\* the API client of the batch is not built, and the process exits with 0.
\* With --dry-run no handler ever gets past that step.
DryRunReturned == pcCmd \in {"returned", "exited"} /\ ret.from = "dryRun"

C20_DryRunInvokesNothing ==
    /\ (handler # "none" /\ flags.dryRun) =>
           /\ ~Called
           /\ ~client
           /\ operations = <<>> /\ invoked = <<>>
           /\ pcCmd \notin {"client", "single", "execute"}
           /\ ret.from \notin {"client", "single", "summary"}
    /\ DryRunReturned =>
           /\ flags.dryRun
           /\ ret.err = "nil"
           /\ pcCmd = "exited" => exitCode = 0
    /\ (pcCmd \in {"returned", "exited"} /\ flags.dryRun) =>
           ret.from \in {"args", "resolve", "confirm", "dryRun"}

\* A confirmed reinstall of the servers that --all listed, with --dry-run:
\* the servers were listed, and nothing else was done.
C20_Witness ==
    /\ DryRunReturned
    /\ pcCmd = "exited"
    /\ exitCode = 0
    /\ handler = "runServerAction"
    /\ actionName = "reinstall"
    /\ prompt = "accepted"
    /\ selection.all
    /\ Len(uuids) = MaxTargets
    /\ ~client /\ ~Called

\* C21: a destructive action (kill, reinstall, or stop on more than one
\* server) given without --yes gets past the confirmation only when the
\* line typed at the prompt is y or yes: otherwise no action is invoked, no
\* client is built and Execute is not called; a declined prompt returns nil
\* (exit code 0); with --yes nothing is asked.
Destructive ==
    /\ Confirms(handler)
    /\ actionName \in {"kill", "reinstall"}
           \/ (actionName = "stop" /\ Len(uuids) > 1)
PastConfirmation ==
    \/ pcCmd \in {"dryRun", "client", "single", "execute"}
    \/ ret.from \in {"dryRun", "client", "single", "summary"}
    \/ Called
    \/ client
    \/ \E k \in DOMAIN invoked : invoked[k] > 0

C21_ConfirmationGate ==
    /\ (Destructive /\ ~flags.yes /\ PastConfirmation) => prompt = "accepted"
    /\ prompt = "declined" =>
           /\ ~PastConfirmation
           /\ pcCmd \in {"returned", "exited"}
           /\ ret = Returning("confirm", "nil")
           /\ pcCmd = "exited" => exitCode = 0
    /\ prompt = "failed" => (~PastConfirmation /\ ret.err = ErrReadResponse)
    /\ prompt # "none" => (Destructive /\ ~flags.yes)
    /\ (handler # "none" /\ flags.yes) => prompt = "none"

\* stop on two servers, confirmed at the prompt, and an action has run.
C21_Witness ==
    /\ handler = "runPowerCommand"
    /\ actionName = "stop"
    /\ Len(uuids) = 2
    /\ ~flags.yes
    /\ prompt = "accepted"
    /\ \E k \in DOMAIN invoked : invoked[k] = 1

\* C22: runServerAction given --all or --from-file and no positional
\* argument does not return "no servers specified": it goes on to resolve
\* the servers the flag selects.
SelectedByFlag ==
    /\ handler = "runServerAction"
    /\ selection.args = 0
    /\ selection.all \/ selection.fromFile

C22_FlagSelectsTargets ==
    SelectedByFlag =>
        /\ ret.err # ErrNoServersSpecified
        /\ pcCmd \in {"returned", "exited"} => ret.from # "args"

----------------------------------------------------------------------------
(* More properties of Execute.                                             *)

\* The first operation whose action fails, or one past the end if none does.
RECURSIVE FirstFailingFrom(_)
FirstFailingFrom(k) ==
    IF k > Len(operations) \/ k \in Failing THEN k
    ELSE FirstFailingFrom(k + 1)
FirstFailing == FirstFailingFrom(1)

Serial == e.failFast /\ e.maxConcurrency = 1

\* C23 (as stated): with failFast and one slot, no action runs while an
\* earlier operation's action has failed, and when Execute returns exactly
\* the operations after the first failing one carry the skip marker.
C23_SkippedAfterFirstFailing ==
    Serial =>
        /\ \A k \in DOMAIN pc :
               pc[k] = "exec" => \A m \in 1..(k - 1) : m \notin Failing
        /\ Returned =>
               \A k \in DOMAIN results : Skipped(k) <=> k > FirstFailing

\* C23 (amended): with failFast and one slot, the operations up to the first
\* failing one run, the one right after it may run or be skipped (its check
\* can pass before the failure is recorded), and no action of a later
\* operation is ever started: all of those are skipped.
C23_SkippedFromSecondAfter ==
    Serial =>
        /\ \A k \in DOMAIN invoked : invoked[k] > 0 => k <= FirstFailing + 1
        /\ \A k \in DOMAIN results : Skipped(k) => k > FirstFailing
        /\ Returned =>
               \A k \in DOMAIN results :
                   /\ k <= FirstFailing => invoked[k] = 1
                   /\ k >= FirstFailing + 2 => Skipped(k)

\* The first action failed, the second one ran all the same, the third
\* operation was skipped.
C23_Witness ==
    /\ Serial
    /\ Returned
    /\ Len(operations) = 3
    /\ FirstFailing = 1
    /\ invoked[2] = 1 /\ ~Skipped(2)
    /\ Skipped(3)

\* C24: if every action that is called returns, Execute returns, for every
\* list, every maxConcurrency, both failFast settings and every pattern of
\* failures: whatever has happened, the call eventually reaches its return.
C24_Terminates == <>Returned

\* The submitting loop waits at a full gate while a failing action runs.
C24_Witness ==
    /\ pcMain = "acquire"
    /\ ~CanAcquire(Cur)
    /\ sem = e.maxConcurrency
    /\ \E k \in Running : k \in Failing

\* A worker that has a step left: only workers store into results after the
\* loop, so the results can change only while there is one.
Active(k) ==
    \/ CanCall(Cur, k) \/ CanReturn(Cur, k) \/ CanLockErr(Cur, k)
    \/ CanSetErr(Cur, k) \/ CanWrite(Cur, k) \/ CanExit(Cur, k)
    \/ pc[k] \notin {"idle", "exited"}

\* C25: Execute returns only after every submitted operation has finished
\* and stored its result: at the return every worker that was started has
\* exited, every slot has been stored into (exactly once, none is left at
\* its zero value), and no worker has a step left that could change the
\* returned results.
C25_ReturnsAfterWorkers ==
    Returned =>
        /\ wg = 0
        /\ \A k \in DOMAIN pc :
               /\ ~Active(k)
               /\ Submitted(k) => (pc[k] = "exited" /\ invoked[k] = 1)
        /\ \A k \in DOMAIN results :
               /\ results[k] # ZeroResult
               /\ Len(writers[k]) = 1
               /\ Submitted(k) => results[k] = ExecResult(operations[k])

C25_Witness ==
    /\ Returned
    /\ Len(operations) = 3
    /\ e.maxConcurrency = 2
    /\ \A k \in 1..2 : pc[k] = "exited"
    /\ Skipped(3)

\* C26: with failFast, once the failure flag is set at most one more
\* operation is submitted, the one whose fail-fast check had already passed:
\* no fail-fast check made while the flag is set lets its operation through
\* to the admission gate.
C26_NoAdmissionAfterFlag ==
    [][(e.failFast /\ hasError /\ pcMain = "loop") => pcMain' # "acquire"]_vars

\* C27: the skipped results are a contiguous suffix of the input: no
\* operation after a skipped one is ever submitted or executed, and when
\* Execute returns every result after a skipped one is skipped too.
C27_SkippedSuffix ==
    \A k \in DOMAIN results :
        Skipped(k) =>
            \A m \in DOMAIN results :
                m > k => /\ ~Submitted(m)
                         /\ invoked[m] = 0
                         /\ Len(writers[m]) = 1 => Skipped(m)
                         /\ Returned => Skipped(m)

C27_Witness ==
    /\ Returned
    /\ Len(operations) = 3
    /\ results[1] = ExecResult(operations[1])
    /\ Skipped(2)
    /\ Skipped(3)

\* C28: a skip marker is stored only if failFast is set and an operation
\* with a lower index was executed, failed and set the failure flag: the
\* first operation is never skipped, and while no executed action has failed
\* no result is skipped.
C28_SkipNeedsEarlierFailure ==
    /\ \A k \in DOMAIN results :
           Skipped(k) =>
               /\ e.failFast
               /\ hasError
               /\ k > 1
               /\ \E m \in 1..(k - 1) :
                      /\ invoked[m] = 1
                      /\ m \in Failing
                      /\ pc[m] \in {"lockRes", "release", "exited"}
    /\ (\A m \in DOMAIN invoked : invoked[m] > 0 => m \notin Failing) =>
           \A k \in DOMAIN results : ~Skipped(k)

\* The second operation ran and failed while the first succeeded, and the
\* third is skipped.
C28_Witness ==
    /\ Len(operations) = 3
    /\ 1 \notin Failing
    /\ invoked[1] = 1
    /\ RanAndFailed(2)
    /\ Skipped(3)
    /\ ~Skipped(2)

----------------------------------------------------------------------------
(* Properties of bulk backup creation.                                     *)

\* The operations that succeeded with a uuid in the response.
WithUUID == {k \in DOMAIN closure : closure[k].uuid /\ results[k].Success}

\* C29: in bulk backup creation the closures are safe for concurrent
\* invocation: once Execute has returned, the shared list holds exactly one
\* pair for every operation that succeeded with a uuid in its response,
\* none lost and none twice.
C29_PairsComplete ==
    Returned =>
        /\ \A k \in WithUUID :
               \E m \in DOMAIN pairs : pairs[m] = BackupPair(k)
        /\ Len(pairs) = Cardinality(WithUUID)

----------------------------------------------------------------------------
(* Properties of warnIfTokenInConfig.                                      *)

\* How many times the warning for apiType was written.
Warnings(apiType) ==
    Cardinality({n \in DOMAIN stderr : stderr[n] = apiType})

\* C30: under any interleaving of concurrent calls of warnIfTokenInConfig
\* the warning is written at most once per API type, and exactly once for
\* every API type for which a call has returned; only the goroutine that
\* holds the mutex is inside the function.
C30_WarnedOnce ==
    /\ \A apiType \in APITypes :
           /\ Warnings(apiType) <= 1
           /\ Warnings(apiType) = 1 => apiType \in warnedAPITypes
           /\ (\E c \in DOMAIN callers : apiType \in callers[c].returned) =>
                  Warnings(apiType) = 1
    /\ \A c \in DOMAIN callers :
           callers[c].at \in {"check", "mark", "print", "unlock"} =>
               warnedMutex = c

\* Two goroutines have each called the function for both API types, and
\* each warning was written once.
C30_Witness ==
    /\ Len(stderr) = 2
    /\ \A c \in {1, 2} :
           /\ callers[c].at = "idle"
           /\ callers[c].returned = APITypes

====
